---------------------------- MODULE Spec2Model ----------------------------
(***************************************************************************)
(* A model of cuzk_tools/dmr5g.py (class Dmr5gParser): the tile catalog,   *)
(* the bounding-box index built by get_tiles, the footprint normaliser     *)
(* fix_tile_coords, the three resolvers get_tile_id, get_tile_ids and      *)
(* get_tile_ids_rect, the catalog loader get_dmr5g_xml and the cache       *)
(* manager download_tile.                                                  *)
(*                                                                         *)
(* Coordinates are exact integers.  A geodetic point is <<lat, lon>> (the  *)
(* order of a georss:polygon pair), a planar (S-JTSK) point is <<x, y>>.   *)
(***************************************************************************)
EXTENDS Integers, Sequences, FiniteSets, TLC

VARIABLES
    tile_polygons,  \* self.tile_polygons: id -> reported footprint (5 pairs)
    tile_idx,       \* self.tile_idx: id -> index box [left, bottom, right, top]
    call,           \* the last resolver call: operation, input and outcome
    xml_file,       \* cache_dir/DMR5G-SJTSK.xml: <<>> (no file) or <<content>>
    marker_file,    \* cache_dir/DMR5G_last_modified.txt: <<>> or <<first line>>
    remote,         \* the remote catalog's Last-Modified stamp (and version)
    root,           \* self.root: <<>> (not set) or <<version parsed>>
    load,           \* the last get_dmr5g_xml call: what it saw and how it ended
    catalog,        \* the parsed entries: id -> [code, updated]
    manifest,       \* cache_dir/update_dates.json: [kind, entries]
    zips,           \* cache_dir/{code}.zip: code -> <<>> or <<archive serial>>
    lazs,           \* cache_dir/{code}.laz: code -> <<>> or <<archive serial>>
    serial,         \* number of archives the remote service has served
    writer,         \* code -> serial of the archive fetched by the call that
                    \* last wrote the code's manifest entry (history variable)
    dl,             \* the last download_tile call: input, cache before, outcome
    prev            \* the download_tile call before it: id and outcome

resolveVars == <<tile_polygons, tile_idx, call>>
loadVars    == <<xml_file, marker_file, remote, root, load>>
cacheVars   == <<catalog, manifest, zips, lazs, serial, writer, dl, prev>>
vars        == <<resolveVars, loadVars, cacheVars>>

-----------------------------------------------------------------------------
(* Integer helpers *)

Abs(a) == IF a < 0 THEN -a ELSE a

Min2(a, b) == IF a <= b THEN a ELSE b

Max2(a, b) == IF a >= b THEN a ELSE b

-----------------------------------------------------------------------------
(***************************************************************************)
(* The coordinate transforms.  pyproj's Krovak projection is conformal: in *)
(* the neighbourhood of a tile it is a rotation (the meridian convergence, *)
(* about 8 degrees over the survey area) and a scaling.  It is modelled as *)
(* the integer similarity  x = A*lon - B*lat,  y = B*lon + A*lat  with     *)
(* atan(B/A) = 8.1 degrees.  The inverse divides by Det = A*A + B*B, and  *)
(* rounds down to the geodetic unit; it is exact on the image of every     *)
(* geodetic point, so WGS -> S-JTSK -> WGS gives the point back.           *)
(***************************************************************************)
RotA == 7

RotB == 1

Det == RotA * RotA + RotB * RotB

WGS_TO_SJTSK(lat, lon) == <<RotA * lon - RotB * lat, RotB * lon + RotA * lat>>

SJTSK_TO_WGS(x, y) == <<(RotA * y - RotB * x) \div Det, (RotA * x + RotB * y) \div Det>>

-----------------------------------------------------------------------------
(* fix_tile_coords: snap every vertex onto the tiling grid *)

GridStepX == 2500

HalfStepX == 1250

GridStepY == 2000

HalfStepY == 1000

SnapX(x) ==
    IF x % GridStepX < HalfStepX
        THEN x - (x % GridStepX)
        ELSE x + (GridStepX - (x % GridStepX))

SnapY(y) ==
    IF y % GridStepY < HalfStepY
        THEN y - (y % GridStepY)
        ELSE y + (GridStepY - (y % GridStepY))

fix_tile_coords(tile) == [k \in DOMAIN tile |-> <<SnapX(tile[k][1]), SnapY(tile[k][2])>>]

\* Polygon(WGS_TO_SJTSK.transform(tile[:,0], tile[:,1]).T): vertex order kept
tile_sjtsk(tile) == [k \in DOMAIN tile |-> WGS_TO_SJTSK(tile[k][1], tile[k][2])]

tile_sjtsk_fixed(tile) == fix_tile_coords(tile_sjtsk(tile))

-----------------------------------------------------------------------------
(***************************************************************************)
(* shapely's predicates on a closed ring  poly[1..m], poly[m] = poly[1].   *)
(* contains(point): the point is in the interior (a boundary point is not  *)
(* contained).  intersects(other): the two closed regions share a point.   *)
(***************************************************************************)
Cross(a, b, c) == (b[1] - a[1]) * (c[2] - a[2]) - (b[2] - a[2]) * (c[1] - a[1])

OnSegment(p, a, b) ==
    /\ Cross(a, b, p) = 0
    /\ Min2(a[1], b[1]) <= p[1] /\ p[1] <= Max2(a[1], b[1])
    /\ Min2(a[2], b[2]) <= p[2] /\ p[2] <= Max2(a[2], b[2])

Edges(poly) == 1 .. (Len(poly) - 1)

OnBoundary(poly, p) == \E k \in Edges(poly) : OnSegment(p, poly[k], poly[k + 1])

\* the edge from a to b crosses the horizontal ray from p towards +x
RayCrosses(p, a, b) ==
    /\ (a[2] > p[2]) # (b[2] > p[2])
    /\ LET t == (b[1] - a[1]) * (p[2] - a[2]) - (p[1] - a[1]) * (b[2] - a[2])
       IN  IF b[2] > a[2] THEN t > 0 ELSE t < 0

Crossings(poly, p) == Cardinality({k \in Edges(poly) : RayCrosses(p, poly[k], poly[k + 1])})

Contains(poly, p) == ~OnBoundary(poly, p) /\ Crossings(poly, p) % 2 = 1

Covers(poly, p) == OnBoundary(poly, p) \/ Crossings(poly, p) % 2 = 1

Sign(a) == IF a > 0 THEN 1 ELSE IF a < 0 THEN -1 ELSE 0

SegmentsMeet(a, b, c, d) ==
    \/ /\ Sign(Cross(a, b, c)) * Sign(Cross(a, b, d)) < 0
       /\ Sign(Cross(c, d, a)) * Sign(Cross(c, d, b)) < 0
    \/ OnSegment(c, a, b) \/ OnSegment(d, a, b)
    \/ OnSegment(a, c, d) \/ OnSegment(b, c, d)

Intersects(p, q) ==
    \/ \E k \in Edges(p), m \in Edges(q) : SegmentsMeet(p[k], p[k + 1], q[m], q[m + 1])
    \/ Covers(q, p[1])
    \/ Covers(p, q[1])

-----------------------------------------------------------------------------
(***************************************************************************)
(* get_tiles: one index box per catalog entry, taken from three numbers of *)
(* the reported footprint: left = lon of vertex 0, bottom = lat of vertex  *)
(* 0, right = lon of vertex 1, top = lat of vertex 2.                      *)
(***************************************************************************)
IndexBox(pairs) ==
    [left |-> pairs[1][2], bottom |-> pairs[1][1], right |-> pairs[2][2], top |-> pairs[3][1]]

get_tiles(polygons) == [id \in DOMAIN polygons |-> IndexBox(polygons[id])]

n == Cardinality(DOMAIN tile_polygons)

\* rtree intersection(point): the boxes holding the point <<lon, lat>>, edges included
get_intersection_tile_ids(point) ==
    {id \in DOMAIN tile_idx :
        /\ tile_idx[id].left <= point[1] /\ point[1] <= tile_idx[id].right
        /\ tile_idx[id].bottom <= point[2] /\ point[2] <= tile_idx[id].top}

\* squared distance from the point <<lon, lat>> to a box
BoxDist2(box, lon, lat) ==
    LET dx == Max2(0, Max2(box.left - lon, lon - box.right))
        dy == Max2(0, Max2(box.bottom - lat, lat - box.top))
    IN  dx * dx + dy * dy

\* rtree nearest(point, k): the k nearest boxes; entries as near as the k-th
\* are all returned
Nearest(lon, lat, k) ==
    {id \in DOMAIN tile_idx :
        Cardinality({j \in DOMAIN tile_idx :
            BoxDist2(tile_idx[j], lon, lat) < BoxDist2(tile_idx[id], lon, lat)}) < k}

\* int((2 + 2*floor((1.1 + floor(radius/1000)) / 2)) ** 2), km = floor(radius/1000)
necessary_num_near_tiles(km) ==
    LET side == 2 + 2 * ((11 + 10 * km) \div 20) IN side * side

get_tile(id) == tile_polygons[id]

-----------------------------------------------------------------------------
(* The outcome of a resolver call: the ids returned, or the error raised *)

Returned(op, arg, ids) == [op |-> op, arg |-> arg, ids |-> ids, err |-> "none"]

Raised(op, arg, err) == [op |-> op, arg |-> arg, ids |-> {}, err |-> err]

\* the first id of the candidate scan whose normalized footprint contains the point
FirstContaining(ids, point_sjtsk) ==
    LET hits == {id \in ids : Contains(tile_sjtsk_fixed(get_tile(id)), point_sjtsk)}
    IN  IF hits = {} THEN {} ELSE {CHOOSE id \in hits : \A other \in hits : id <= other}

\* get_tile_id(point), point = <<lon, lat>>
get_tile_id(point) ==
    LET ids         == get_intersection_tile_ids(point)
        point_sjtsk == WGS_TO_SJTSK(point[2], point[1])
        hit         == FirstContaining(ids, point_sjtsk)
    IN  IF Cardinality(ids) > 1
            THEN IF hit # {}
                    THEN Returned("get_tile_id", point, hit)
                    ELSE Raised("get_tile_id", point, "PointOutOfTileError: none of selected tiles")
        ELSE IF Cardinality(ids) = 1
            THEN IF hit = {}
                    THEN Raised("get_tile_id", point, "PointOutOfTileError: only one tile selected")
                    ELSE Returned("get_tile_id", point, hit)
        ELSE Raised("get_tile_id", point, "PointOutOfTileError: no tile found")

\* Rectangle with the top read from vertex 1 (points[1][1]) instead of vertex 2
Rectangle_TopFromVertex1(poly) ==
    LET l == poly[1][1]
        b == poly[1][2]
        r == poly[2][1]
        t == poly[2][2]
    IN  [x2 |-> l + r, y2 |-> b + t, w |-> r - l, h |-> t - b]

\* Rectangle(points), points = exterior.coords.xy; x and y are kept doubled
Rectangle(poly) ==
    LET l == poly[1][1]
        b == poly[1][2]
        r == poly[2][1]
        t == poly[3][2]
    IN  [x2 |-> l + r, y2 |-> b + t, w |-> r - l, h |-> t - b]

Circle(center, radius) == [x |-> center[1], y |-> center[2], r |-> radius]

\* c_r_intersects, every comparison multiplied by 2 (by 4 for the squares)
c_r_intersects(circle, rect) ==
    LET dx2 == Abs(2 * circle.x - rect.x2)
        dy2 == Abs(2 * circle.y - rect.y2)
    IN  IF dx2 > rect.w + 2 * circle.r THEN FALSE
        ELSE IF dy2 > rect.h + 2 * circle.r THEN FALSE
        ELSE IF dx2 <= rect.w THEN TRUE
        ELSE IF dy2 <= rect.h THEN TRUE
        ELSE (dx2 - rect.w) * (dx2 - rect.w) + (dy2 - rect.h) * (dy2 - rect.h)
                <= 4 * circle.r * circle.r

\* get_tile_ids(point_sjtsk, radius)
get_tile_ids(point_sjtsk, radius) ==
    LET point_wgs == SJTSK_TO_WGS(point_sjtsk[1], point_sjtsk[2])
        tile_ids  == Nearest(point_wgs[2], point_wgs[1],
                             necessary_num_near_tiles(radius \div 1000))
    IN  Returned("get_tile_ids", <<point_sjtsk, radius>>,
            {id \in tile_ids :
                c_r_intersects(Circle(point_sjtsk, radius),
                               Rectangle(tile_sjtsk_fixed(get_tile(id))))})

\* floor(sqrt(d2) / 2 / 1000)
HalfDiagonalKm(d2) ==
    CHOOSE km \in 0 .. (d2 \div 4000000) :
        /\ 4000000 * km * km <= d2
        /\ d2 < 4000000 * (km + 1) * (km + 1)

\* get_tile_ids_rect(tl, tr, bl, br)
get_tile_ids_rect(tl, tr, bl, br) ==
    LET poly2check == <<tl, bl, br, tr, tl>>
        centre     == <<(tl[1] + br[1] + tr[1] + bl[1]) \div 4,
                        (tl[2] + br[2] + tr[2] + bl[2]) \div 4>>
        centre_wgs == SJTSK_TO_WGS(centre[1], centre[2])
        d2         == (tr[1] - bl[1]) * (tr[1] - bl[1]) + (tr[2] - bl[2]) * (tr[2] - bl[2])
        tile_ids   == Nearest(centre_wgs[2], centre_wgs[1],
                              necessary_num_near_tiles(HalfDiagonalKm(d2)))
    IN  Returned("get_tile_ids_rect", <<tl, tr, bl, br>>,
            {id \in tile_ids : Intersects(poly2check, tile_sjtsk_fixed(get_tile(id)))})

-----------------------------------------------------------------------------
(***************************************************************************)
(* get_dmr5g_xml.  The remote catalog is identified with its Last-Modified *)
(* stamp: the document served under stamp v is version v.  A file is <<>>  *)
(* when it does not exist and <<content>> when it does.                    *)
(***************************************************************************)
NoFile == <<>>

Document(v) == [parses |-> TRUE, version |-> v]

Garbled == [parses |-> FALSE, version |-> 0]

\* what a call leaves behind: the two files, self.root, the number of full
\* fetches (open_url calls) it made, and how it ended
Loaded(xml, mark, fetches, result, rt) ==
    [xml_file |-> xml, marker_file |-> mark, fetches |-> fetches, result |-> result, root |-> rt]

\* tree = ET.parse(self.xml_fn); self.root = tree.getroot()
parse_local(xml, mark) ==
    IF xml = NoFile THEN Loaded(xml, mark, 0, "FileNotFoundError", <<>>)
    ELSE IF xml[1].parses THEN Loaded(xml, mark, 0, "loaded", <<xml[1].version>>)
    ELSE Loaded(xml, mark, 0, "ParseError", <<>>)

\* the except branch without the fall-back to the cached file
load_offline_NoFallback(xml, mark) == Loaded(xml, mark, 0, "NoXMLFileError", <<>>)

\* the except branch: requests.head raised
load_offline(xml, mark) ==
    IF xml # NoFile
        THEN parse_local(xml, mark)
        ELSE Loaded(xml, mark, 0, "NoXMLFileError", <<>>)

\* fetch_xml alone, without "or not os.path.exists(self.xml_fn)"
needs_fetch_MarkerOnly(xml, mark, xml_updated) ==
    IF mark # NoFile THEN mark[1] # xml_updated ELSE TRUE

\* fetch_xml or not os.path.exists(self.xml_fn)
needs_fetch(xml, mark, xml_updated) ==
    LET fetch_xml == IF mark # NoFile THEN mark[1] # xml_updated ELSE TRUE
    IN  fetch_xml \/ xml = NoFile

\* the else branch: requests.head returned the stamp xml_updated
load_online(xml, mark, xml_updated, fetch_ok) ==
    IF needs_fetch(xml, mark, xml_updated)
        THEN IF fetch_ok
                THEN Loaded(<<Document(xml_updated)>>, <<xml_updated>>, 1, "loaded", <<xml_updated>>)
                ELSE Loaded(xml, mark, 1, "URLError", <<>>)
        ELSE parse_local(xml, mark)

get_dmr5g_xml(xml, mark, probe_ok, xml_updated, fetch_ok) ==
    IF probe_ok
        THEN load_online(xml, mark, xml_updated, fetch_ok)
        ELSE load_offline(xml, mark)

NoLoad ==
    [op |-> "none", probe_ok |-> FALSE, stamp |-> 0, fetches |-> 0, result |-> "none",
     xml_before |-> NoFile, marker_before |-> NoFile]

-----------------------------------------------------------------------------
(***************************************************************************)
(* download_tile.  The manifest update_dates.json is [kind, entries]:      *)
(*   "absent"   no file              "empty"  a file of zero bytes         *)
(*   "garbage"  not JSON             "other"  JSON, but not an object      *)
(*   "dict"     a JSON object, entries its set of <<code, date>> pairs.    *)
(* An archive is identified by its serial, the count of archives served    *)
(* when it was fetched; a .zip or .laz file holds the serial of the        *)
(* archive it is, or was extracted from (0: a download of an earlier run). *)
(* The environment decides how far a call gets:                            *)
(*   "descriptor_unreachable"  open_url(tile_url) raises                   *)
(*   "descriptor_malformed"    the descriptor has no entry / id            *)
(*   "fetch_refused"           urlretrieve raises before any byte          *)
(*   "fetch_cut"               urlretrieve raises after a partial write    *)
(*   "not_a_zip"               zipfile.ZipFile raises BadZipFile           *)
(*   "empty_zip"               namelist()[0] raises IndexError             *)
(*   "extract_failed"          zip_ref.extract raises                      *)
(*   "rename_failed"           os.rename raises                            *)
(*   "ok"                      every step succeeds                         *)
(***************************************************************************)
Envs ==
    {"descriptor_unreachable", "descriptor_malformed", "fetch_refused", "fetch_cut",
     "not_a_zip", "empty_zip", "extract_failed", "rename_failed", "ok"}

Codes == {catalog[id].code : id \in DOMAIN catalog}

get_tile_code(id) == catalog[id].code

get_tile_update_date(id) == catalog[id].updated

\* what a call leaves behind, what it returns ("None", "path") or that it raised
Outcome(m, z, l, s, w, ret, err) ==
    [manifest |-> m, zips |-> z, lazs |-> l, serial |-> s, writer |-> w, ret |-> ret, err |-> err]

\* the manifest created (as in "if not os.path.exists: open(.., 'w')") before
\* the locator is resolved
resolve_failed_TouchesManifest(m, z, l, s, w) ==
    Outcome(IF m.kind = "absent" THEN [kind |-> "empty", entries |-> {}] ELSE m,
            z, l, s, w, "None", "none")

\* tile_zip = self.get_tile_zip(id) raised: logwarn, return None
resolve_failed(m, z, l, s, w) == Outcome(m, z, l, s, w, "None", "none")

\* update_dict = json.load(upd_f), or dict() when that raises
json_load(m) == IF m.kind = "dict" THEN m.entries ELSE {}

\* the entry appended instead of assigned under its key
dict_set_Append(entries, code, date) == entries \cup {<<code, date>>}

\* update_dict[tile_code] = update_date
dict_set(entries, code, date) == {e \in entries : e[1] # code} \cup {<<code, date>>}

\* the manifest after the read-modify-write; "other" is truncated by open(.., 'w')
\* before the assignment raises TypeError
update_manifest(m, code, date) ==
    IF m.kind = "other"
        THEN [kind |-> "empty", entries |-> {}]
        ELSE [kind |-> "dict", entries |-> dict_set(json_load(m), code, date)]

download_tile(id, env, m, z, l, s, w) ==
    IF env \in {"descriptor_unreachable", "descriptor_malformed"}
        THEN resolve_failed(m, z, l, s, w)
    ELSE IF env = "fetch_refused"
        THEN Outcome(m, z, l, s, w, "raised", "URLError")
    ELSE
        LET tile_code == get_tile_code(id)
            archive   == s + 1
            z2        == [z EXCEPT ![tile_code] = <<archive>>]
            m2        == update_manifest(m, tile_code, get_tile_update_date(id))
            w2        == [w EXCEPT ![tile_code] = archive]
        IN  IF env = "fetch_cut"
                THEN Outcome(m, z2, l, archive, w, "raised", "ContentTooShortError")
            ELSE IF env = "not_a_zip"
                THEN Outcome(m, z2, l, archive, w, "raised", "BadZipFile")
            ELSE IF m.kind = "other"
                THEN Outcome(m2, z2, l, archive, w, "raised", "TypeError")
            ELSE IF env = "empty_zip"
                THEN Outcome(m2, z2, l, archive, w2, "raised", "IndexError")
            ELSE IF env = "extract_failed"
                THEN Outcome(m2, z2, l, archive, w2, "raised", "BadZipFile")
            ELSE IF env = "rename_failed"
                THEN Outcome(m2, z2, l, archive, w2, "raised", "OSError")
            ELSE Outcome(m2, z2, [l EXCEPT ![tile_code] = <<archive>>], archive, w2,
                         "path", "none")

NoManifest == [kind |-> "absent", entries |-> {}]

NoDownload ==
    [op |-> "none", id |-> 0, env |-> "none", ret |-> "none", err |-> "none",
     before |-> [manifest |-> NoManifest, zips |-> <<>>, lazs |-> <<>>]]

NoPrev == [op |-> "none", id |-> 0, ret |-> "none", before |-> NoManifest]

-----------------------------------------------------------------------------
(* The parts of the state a specification leaves alone *)

\* no resolver call is in progress: the caller has taken the last outcome
NoCall == [op |-> "none", arg |-> <<>>, ids |-> {}, err |-> "none"]

ResolveIdle ==
    /\ tile_polygons = <<>>
    /\ tile_idx = <<>>
    /\ call = NoCall

LoadIdle ==
    /\ xml_file = NoFile
    /\ marker_file = NoFile
    /\ remote = 0
    /\ root = <<>>
    /\ load = NoLoad

CacheIdle ==
    /\ catalog = <<>>
    /\ manifest = NoManifest
    /\ zips = <<>>
    /\ lazs = <<>>
    /\ serial = 0
    /\ writer = <<>>
    /\ dl = NoDownload
    /\ prev = NoPrev

-----------------------------------------------------------------------------
(***************************************************************************)
(* The catalogs.  The survey tiles are the cells of the planar grid; tile  *)
(* (i, j) is [2500 i, 2500 (i+1)] x [2000 j, 2000 (j+1)].  A catalog lists *)
(* a block of NumCols x NumRows tiles row by row, each footprint a closed  *)
(* ring of five geodetic pairs starting at the south-west vertex and going *)
(* east first, the order IndexBox and Rectangle read it in.  A footprint   *)
(* is reported in one of three shapes, all within half a grid cell of the  *)
(* tile:                                                                   *)
(*   "bbox"   the geodetic bounding box of the tile (what the feed holds),  *)
(*   "exact"  the tile's own four corners,                                 *)
(*   "inset"  the tile shrunk by Drift planar units on every side.         *)
(***************************************************************************)
NumCols == 3

NumRows == 3

Drift == 400

Shapes == {"bbox", "exact", "inset"}

TileIds == 0 .. (NumCols * NumRows - 1)

TileCol(id) == (id % NumCols) - 1

TileRow(id) == (id \div NumCols) - 1

\* the planar ring of tile (i, j) shrunk by d: SW, SE, NE, NW, SW
TileRing(i, j, d) ==
    LET l == GridStepX * i + d
        r == GridStepX * (i + 1) - d
        b == GridStepY * j + d
        t == GridStepY * (j + 1) - d
    IN  << <<l, b>>, <<r, b>>, <<r, t>>, <<l, t>>, <<l, b>> >>

GeoRing(ring) == [k \in DOMAIN ring |-> SJTSK_TO_WGS(ring[k][1], ring[k][2])]

GeoBBox(geo) ==
    LET s == CHOOSE v \in {geo[k][1] : k \in DOMAIN geo} : \A k \in DOMAIN geo : v <= geo[k][1]
        t == CHOOSE v \in {geo[k][1] : k \in DOMAIN geo} : \A k \in DOMAIN geo : v >= geo[k][1]
        w == CHOOSE v \in {geo[k][2] : k \in DOMAIN geo} : \A k \in DOMAIN geo : v <= geo[k][2]
        e == CHOOSE v \in {geo[k][2] : k \in DOMAIN geo} : \A k \in DOMAIN geo : v >= geo[k][2]
    IN  << <<s, w>>, <<s, e>>, <<t, e>>, <<t, w>>, <<s, w>> >>

Footprint(i, j, shape) ==
    IF shape = "bbox" THEN GeoBBox(GeoRing(TileRing(i, j, 0)))
    ELSE IF shape = "exact" THEN GeoRing(TileRing(i, j, 0))
    ELSE GeoRing(TileRing(i, j, Drift))

\* the catalog whose tile (0, 0) is reported in shape c and every other in shape o
Catalog(c, o) ==
    [id \in TileIds |->
        Footprint(TileCol(id), TileRow(id),
                  IF TileCol(id) = 0 /\ TileRow(id) = 0 THEN c ELSE o)]

\* Dmr5gParser.__init__ after get_dmr5g_xml: n, tile_idx, tile_polygons
InitResolve ==
    /\ \E c \in Shapes, o \in Shapes :
        /\ tile_polygons = Catalog(c, o)
        /\ tile_idx = get_tiles(Catalog(c, o))
    /\ call = NoCall
    /\ LoadIdle
    /\ CacheIdle

(***************************************************************************)
(* The queries: geodetic points <<lon, lat>> of a lattice of step QStep    *)
(* that covers tile (0, 0) and a margin of its eight neighbours.  QStep is *)
(* the finest step that divides every tile-corner coordinate, so the       *)
(* lattice holds the corners, points on every shared edge and points       *)
(* strictly inside every tile.                                             *)
(***************************************************************************)
WinLon == 43

WinLat == 32

QStep == Det \div 5

QueryPoints == {<<QStep * a, QStep * b>> : a \in (-4) .. WinLon, b \in (-9) .. WinLat}

Radii == {0, HalfStepY}

Margins == {0, QStep}

GetTileId ==
    /\ call = NoCall
    /\ \E point \in QueryPoints : call' = get_tile_id(point)
    /\ UNCHANGED <<tile_polygons, tile_idx, loadVars, cacheVars>>

GetTileIds ==
    /\ call = NoCall
    /\ \E point \in QueryPoints, radius \in Radii :
        call' = get_tile_ids(WGS_TO_SJTSK(point[2], point[1]), radius)
    /\ UNCHANGED <<tile_polygons, tile_idx, loadVars, cacheVars>>

GetTileIdsRect ==
    /\ call = NoCall
    /\ \E id \in TileIds, d \in Margins :
        LET ring == TileRing(TileCol(id), TileRow(id), d)
        IN  call' = get_tile_ids_rect(ring[4], ring[3], ring[1], ring[2])
    /\ UNCHANGED <<tile_polygons, tile_idx, loadVars, cacheVars>>

\* the caller takes the outcome; the parser is ready for the next call
ResolveReturn ==
    /\ call # NoCall
    /\ call' = NoCall
    /\ UNCHANGED <<tile_polygons, tile_idx, loadVars, cacheVars>>

NextResolve == GetTileId \/ GetTileIds \/ GetTileIdsRect \/ ResolveReturn

SpecResolve == InitResolve /\ [][NextResolve]_vars

-----------------------------------------------------------------------------
(* Claims about the resolvers *)

Normalized(id) == tile_sjtsk_fixed(tile_polygons[id])

QueryPlanar == WGS_TO_SJTSK(call.arg[2], call.arg[1])

\* C1: a point strictly inside the normalized footprint of a tile resolves to
\* that tile's id, never to another id or an error.
C1_InteriorPointResolves ==
    call.op = "get_tile_id" =>
        \A t \in DOMAIN tile_polygons :
            Contains(Normalized(t), QueryPlanar) => call.err = "none" /\ call.ids = {t}

\* C2: a point on the boundary shared by two adjacent normalized footprints
\* resolves to exactly one of the two tiles, without failing.
C2_SharedBoundaryResolves ==
    call.op = "get_tile_id" =>
        \A t, u \in DOMAIN tile_polygons :
            (/\ t # u
             /\ {v \in DOMAIN tile_polygons : OnBoundary(Normalized(v), QueryPlanar)} = {t, u})
                => call.err = "none" /\ (call.ids = {t} \/ call.ids = {u})

\* C3: the rectangle equal to a tile's normalized footprint resolves to exactly
\* that tile's id, and to no tile that only shares an edge or a corner with it.
C3_FootprintRectResolvesToTile ==
    call.op = "get_tile_ids_rect" =>
        \A t \in DOMAIN tile_polygons :
            <<call.arg[3], call.arg[4], call.arg[2], call.arg[1], call.arg[3]>> = Normalized(t)
                => call.ids = {t}

\* C4: radius resolution with radius 0 at a centre strictly inside a tile's
\* normalized footprint returns a set of ids that holds the tile.
C4_RadiusZeroHoldsTile ==
    (call.op = "get_tile_ids" /\ call.arg[2] = 0) =>
        \A t \in DOMAIN tile_polygons :
            Contains(Normalized(t), call.arg[1]) => t \in call.ids

\* the tile is returned although its own index box does not hold the centre
\* and the index box of another tile does
C4_Witness ==
    /\ call.op = "get_tile_ids" /\ call.arg[2] = 0
    /\ \E t \in DOMAIN tile_polygons :
        LET centre_wgs == SJTSK_TO_WGS(call.arg[1][1], call.arg[1][2])
        IN  /\ Contains(Normalized(t), call.arg[1])
            /\ call.ids = {t}
            /\ BoxDist2(tile_idx[t], centre_wgs[2], centre_wgs[1]) > 0
            /\ \E u \in DOMAIN tile_polygons :
                    BoxDist2(tile_idx[u], centre_wgs[2], centre_wgs[1]) = 0

-----------------------------------------------------------------------------
(***************************************************************************)
(* The catalog loader as a system: the cache directory holds any catalog   *)
(* file and any marker; the remote catalog is republished from time to     *)
(* time; every construction of a Dmr5gParser calls get_dmr5g_xml once.     *)
(***************************************************************************)
MaxStamp == 3

Stamps == 1 .. MaxStamp

InitLoad ==
    /\ xml_file \in {NoFile, <<Garbled>>} \cup {<<Document(v)>> : v \in Stamps}
    /\ marker_file \in {NoFile} \cup {<<v>> : v \in Stamps}
    /\ remote \in Stamps
    /\ root = <<>>
    /\ load = NoLoad
    /\ ResolveIdle
    /\ CacheIdle

GetDmr5gXml ==
    /\ \E probe_ok \in BOOLEAN, fetch_ok \in BOOLEAN :
        LET r == get_dmr5g_xml(xml_file, marker_file, probe_ok, remote, fetch_ok)
        IN  /\ xml_file' = r.xml_file
            /\ marker_file' = r.marker_file
            /\ root' = r.root
            /\ load' = [op |-> "get_dmr5g_xml", probe_ok |-> probe_ok,
                        stamp |-> IF probe_ok THEN remote ELSE 0,
                        fetches |-> r.fetches, result |-> r.result,
                        xml_before |-> xml_file, marker_before |-> marker_file]
    /\ UNCHANGED <<remote, resolveVars, cacheVars>>

\* the publisher replaces the remote catalog
RemoteUpdate ==
    /\ remote < MaxStamp
    /\ remote' = remote + 1
    /\ UNCHANGED <<xml_file, marker_file, root, load, resolveVars, cacheVars>>

NextLoad == GetDmr5gXml \/ RemoteUpdate

SpecLoad == InitLoad /\ [][NextLoad]_vars

-----------------------------------------------------------------------------
(* Claims about the catalog loader *)

FilesUntouched == xml_file = load.xml_before /\ marker_file = load.marker_before

\* C5: when the freshness probe fails, a missing local catalog raises
\* NoXMLFileError and leaves the cache directory unchanged, and a valid local
\* catalog is loaded from the file without error and without a network call.
C5_OfflineLoad ==
    (load.op = "get_dmr5g_xml" /\ ~load.probe_ok) =>
        /\ load.xml_before = NoFile => load.result = "NoXMLFileError" /\ FilesUntouched
        /\ (load.xml_before # NoFile /\ load.xml_before[1].parses) =>
            /\ load.result = "loaded"
            /\ root = <<load.xml_before[1].version>>
            /\ load.fetches = 0
            /\ FilesUntouched

C5_Witness ==
    /\ load.op = "get_dmr5g_xml" /\ ~load.probe_ok
    /\ load.xml_before # NoFile /\ load.xml_before[1].parses
    /\ load.marker_before = NoFile
    /\ load.result = "loaded"

MarkerDiffers == load.marker_before = NoFile \/ load.marker_before[1] # load.stamp

\* C6 as stated: when the probe succeeds and the stamp differs from the marker
\* (or the marker is absent) a full fetch is made and, once it has succeeded,
\* both files are overwritten, the marker with the probed stamp; otherwise no
\* full fetch is made and the catalog is loaded from the existing local file.
C6_FetchIffMarkerDiffers ==
    (load.op = "get_dmr5g_xml" /\ load.probe_ok) =>
        IF MarkerDiffers
            THEN /\ load.fetches = 1
                 /\ load.result = "loaded" =>
                        /\ xml_file = <<Document(load.stamp)>>
                        /\ marker_file = <<load.stamp>>
            ELSE /\ load.fetches = 0
                 /\ load.xml_before # NoFile
                 /\ FilesUntouched

\* C6 amended: when the probe succeeds and the stamp differs from the marker,
\* the marker is absent or the local catalog file is absent, a full fetch is
\* attempted: if it succeeds both files are overwritten (the marker with the
\* probed stamp), if it fails the call raises and both files are as before;
\* otherwise no fetch is made, both files are as before, and the catalog is
\* read from the local file (loaded whenever that file parses).
C6_FetchIffStaleOrMissing ==
    (load.op = "get_dmr5g_xml" /\ load.probe_ok) =>
        IF MarkerDiffers \/ load.xml_before = NoFile
            THEN /\ load.fetches = 1
                 /\ load.result \in {"loaded", "URLError"}
                 /\ load.result = "loaded" =>
                        /\ xml_file = <<Document(load.stamp)>>
                        /\ marker_file = <<load.stamp>>
                        /\ root = <<load.stamp>>
                 /\ load.result = "URLError" => FilesUntouched /\ root = <<>>
            ELSE /\ load.fetches = 0
                 /\ FilesUntouched
                 /\ load.result \in {"loaded", "ParseError"}
                 /\ load.xml_before[1].parses =>
                        load.result = "loaded" /\ root = <<load.xml_before[1].version>>

C6_Witness ==
    /\ load.op = "get_dmr5g_xml" /\ load.probe_ok
    /\ ~MarkerDiffers
    /\ load.xml_before = NoFile
    /\ load.fetches = 1
    /\ load.result = "loaded"
    /\ xml_file = <<Document(load.stamp)>>

-----------------------------------------------------------------------------
(***************************************************************************)
(* The cache manager as a system: a parser over a catalog of two tiles,    *)
(* a cache directory that an earlier run may have filled, and any sequence *)
(* of download_tile calls.                                                 *)
(***************************************************************************)
MaxSerial == 2

CacheIds == {0, 1}

CodeOf == (0 :> "BENE00") @@ (1 :> "BENE01")

Dates == {"2019-05-01", "2023-08-14"}

AllCodes == {CodeOf[id] : id \in CacheIds}

ManifestKinds == {"absent", "empty", "garbage", "other"}

InitCache ==
    /\ \E updated \in [CacheIds -> Dates] :
        catalog = [id \in CacheIds |-> [code |-> CodeOf[id], updated |-> updated[id]]]
    /\ \E had \in SUBSET AllCodes :
        /\ zips = [c \in AllCodes |-> IF c \in had THEN <<0>> ELSE <<>>]
        /\ lazs = [c \in AllCodes |-> IF c \in had THEN <<0>> ELSE <<>>]
        /\ \/ \E kind \in ManifestKinds : manifest = [kind |-> kind, entries |-> {}]
           \/ \E listed \in SUBSET had : \E date \in [listed -> Dates] :
                manifest = [kind |-> "dict", entries |-> {<<c, date[c]>> : c \in listed}]
    /\ serial = 0
    /\ writer = [c \in AllCodes |-> 0]
    /\ dl = NoDownload
    /\ prev = NoPrev
    /\ ResolveIdle
    /\ LoadIdle

Fetches(env) == env \notin {"descriptor_unreachable", "descriptor_malformed", "fetch_refused"}

DownloadTile ==
    /\ \E id \in DOMAIN catalog, env \in Envs :
        /\ Fetches(env) => serial < MaxSerial
        /\ LET r == download_tile(id, env, manifest, zips, lazs, serial, writer)
           IN  /\ manifest' = r.manifest
               /\ zips' = r.zips
               /\ lazs' = r.lazs
               /\ serial' = r.serial
               /\ writer' = r.writer
               /\ dl' = [op |-> "download_tile", id |-> id, env |-> env,
                         ret |-> r.ret, err |-> r.err,
                         before |-> [manifest |-> manifest, zips |-> zips, lazs |-> lazs]]
               /\ prev' = [op |-> dl.op, id |-> dl.id, ret |-> dl.ret,
                           before |-> dl.before.manifest]
    /\ UNCHANGED <<catalog, resolveVars, loadVars>>

NextCache == DownloadTile

SpecCache == InitCache /\ [][NextCache]_vars

-----------------------------------------------------------------------------
(* Claims about the cache manager *)

EntriesOf(code) == {e \in manifest.entries : e[1] = code}

TwoDownloadsOfOneTile ==
    /\ dl.op = "download_tile" /\ dl.ret = "path"
    /\ prev.op = "download_tile" /\ prev.ret = "path"
    /\ dl.id = prev.id

\* C7: after two sequential successful downloads of the same tile id, from
\* any manifest state, the manifest holds exactly one entry for the tile's
\* code and its value is the catalog's updated_at of the tile.
C7_OneEntryAfterTwoDownloads ==
    TwoDownloadsOfOneTile =>
        /\ manifest.kind = "dict"
        /\ EntriesOf(get_tile_code(dl.id))
            = {<<get_tile_code(dl.id), get_tile_update_date(dl.id)>>}

C7_Witness ==
    /\ TwoDownloadsOfOneTile
    /\ prev.before.kind = "dict"
    /\ \E e \in prev.before.entries :
        e[1] = get_tile_code(dl.id) /\ e[2] # get_tile_update_date(dl.id)
    /\ Cardinality(manifest.entries) = 2
    /\ Cardinality(EntriesOf(get_tile_code(dl.id))) = 1

\* C8: a failure of any network step of a download (fetching the tile
\* descriptor, or fetching the archive itself) makes download_tile return
\* None instead of raising.
C8_NetworkFailureReturnsNone ==
    (dl.op = "download_tile"
        /\ dl.env \in {"descriptor_unreachable", "fetch_refused", "fetch_cut"})
        => dl.ret = "None"

\* C9: when the locator resolution fails on the network, the manifest, every
\* downloaded archive and every extracted data file are as before the call.
C9_ResolutionFailureKeepsCache ==
    (dl.op = "download_tile" /\ dl.env = "descriptor_unreachable") =>
        /\ dl.ret = "None"
        /\ manifest = dl.before.manifest
        /\ zips = dl.before.zips
        /\ lazs = dl.before.lazs

C9_Witness ==
    /\ dl.op = "download_tile" /\ dl.env = "descriptor_unreachable"
    /\ dl.ret = "None"
    /\ manifest.kind = "absent"
    /\ prev.op = "download_tile" /\ prev.ret = "raised"
    /\ \E c \in AllCodes : zips[c] # <<>> /\ lazs[c] = <<>>

\* C10: whenever the manifest maps a tile code to an updated_at value, the
\* extracted data file of that code exists and comes from the archive fetched
\* by the call that wrote the entry.
C10_ManifestEntryHasItsData ==
    \A e \in manifest.entries : lazs[e[1]] = <<writer[e[1]]>>

=============================================================================
